---- MODULE Spec2Model ----
(***************************************************************************)
(* A model of the ScreenScraper client of src/screenscraper.py: the rate   *)
(* limiter, the three search operations, the request/response handling of  *)
(* _make_request, the response mapper _parse_game_data, the best-media     *)
(* selection and download_media.                                           *)
(*                                                                         *)
(* A JSON object is a record (a function from its keys); a key the code    *)
(* may find absent is absent from the record's domain, and d.get(k, v) is  *)
(* Get(d, k, v).  Time is counted in ticks of a non-decreasing clock.      *)
(* Text is modelled word by word: an error message is a sequence of        *)
(* words, str.lower() lowers each word, and `kw in text` is membership of  *)
(* the word kw.                                                            *)
(***************************************************************************)
EXTENDS Integers, Sequences, FiniteSets, TLC

\* ------------------------------------------------------------------ bounds

\* The largest request_delay a client is configured with.
MaxDelay == 2
\* How many ticks after the start of the run the clock may reach.
Horizon == 4
\* How many ticks time.sleep may overshoot the requested duration.
MaxOversleep == 1
\* How many ticks an HTTP exchange may take.
MaxDuration == 1
\* How many outbound API calls a run records.
MaxCalls == 3
\* The longest error message, in words.
MaxMsgLen == 2
\* The most occurrences of the known trailing-comma defect in one body.
MaxDefects == 1
\* The longest media list of a record handed to get_best_media / download_media.
MaxMedia == 2
\* The longest list of requested media kinds.
MaxKinds == 2
\* The longest preferred-regions list supplied by a caller.
MaxPrefs == 2
\* The most media groups of a game node, and the most items of one group.
MaxGroups == 2
MaxItems == 2
\* The longest list of localized texts, and of release dates, of a game node.
MaxTexts == 2

\* ----------------------------------------------------------- JSON helpers

Has(d, k) == k \in DOMAIN d

Get(d, k, default) == IF k \in DOMAIN d THEN d[k] ELSE default

Min(S) == CHOOSE x \in S : \A y \in S : x <= y

SeqsUpTo(S, n) == UNION {[1..k -> S] : k \in 0..n}

\* ------------------------------------------------------------ the tables

PLATFORMS ==
    [nes |-> 3, snes |-> 4, n64 |-> 14, gamecube |-> 13, wii |-> 16,
     gameboy |-> 9, gbc |-> 10, gba |-> 12, nds |-> 15, genesis |-> 1,
     megadrive |-> 1, mastersystem |-> 2, saturn |-> 22, dreamcast |-> 23,
     psx |-> 57, ps2 |-> 58, psp |-> 61, arcade |-> 75, mame |-> 75,
     atari2600 |-> 26, atari7800 |-> 43, colecovision |-> 48,
     intellivision |-> 115]

DefaultRegions == <<"us", "wor", "eu", "jp">>

\* ------------------------------------------------------------------ text

(* The words of an error message.  fermE9 is "ferm" followed by U+00E9     *)
(* (e acute); fermC3A9 is "ferm" followed by U+00C3 U+00A9, the keyword    *)
(* literal of line 258; fermE3A9 is "ferm" followed by U+00E3 U+00A9.      *)
Words == {"Quota", "closed", "CLOSED", "fermE9", "fermC3A9", "erreur"}

\* str.lower() on one word: U+00C3 is an upper-case letter, lowered to U+00E3.
LowerWord(w) ==
    CASE w = "Quota"    -> "quota"
      [] w = "CLOSED"   -> "closed"
      [] w = "fermC3A9" -> "fermE3A9"
      [] w = "US"       -> "us"
      [] w = "EU"       -> "eu"
      [] w = "Jp"       -> "jp"
      [] OTHER          -> w

Lower(text) == [i \in DOMAIN text |-> LowerWord(text[i])]

\* kw in text
Contains(text, kw) == \E i \in DOMAIN text : text[i] = kw

Messages == SeqsUpTo(Words, MaxMsgLen) \ {<<>>}

\* --------------------------------------------- GameInfo: media selection

\* A GameMedia value.
GameMedia(media_type, url, format, region, size) ==
    [media_type |-> media_type, url |-> url, format |-> format,
     region |-> region, size |-> size]

\* An Optional[GameMedia]: None, or a descriptor.
NoneMedia == [found |-> FALSE, media |-> GameMedia("", "", "", "", "")]

SomeMedia(m) == [found |-> TRUE, media |-> m]

\* The caller's preferred_regions argument: None (not supplied), or a list.
NoPrefs == [given |-> FALSE, list |-> <<>>]

Prefs(list) == [given |-> TRUE, list |-> list]

GetMediaByType(media, media_type) ==
    SelectSeq(media, LAMBDA m : m.media_type = media_type)

\* The inner loop of get_best_media: the index of the first candidate whose
\* lowered region equals the lowered preference, 0 when the loop ends.
FirstInRegion(candidates, region) ==
    LET hits == {i \in DOMAIN candidates :
                    LowerWord(candidates[i].region) = LowerWord(region)}
    IN  IF hits = {} THEN 0 ELSE Min(hits)

\* The two loops of get_best_media swapped: the first candidate whose region
\* is any of the preferences.
ScanRegions_CandidatesFirst(candidates, regions, r) ==
    LET hits == {i \in DOMAIN candidates :
                    \E q \in r..Len(regions) :
                        LowerWord(candidates[i].region) = LowerWord(regions[q])}
    IN  IF hits = {} THEN 0 ELSE Min(hits)

\* The outer loop of get_best_media, from preference number r on.
RECURSIVE ScanRegions(_, _, _)
ScanRegions(candidates, regions, r) ==
    IF r > Len(regions) THEN 0
    ELSE LET i == FirstInRegion(candidates, regions[r])
         IN  IF i # 0 THEN i ELSE ScanRegions(candidates, regions, r + 1)

GetBestMedia(media, media_type, preferred_regions) ==
    LET regions == IF preferred_regions.given THEN preferred_regions.list
                   ELSE DefaultRegions
        candidates == GetMediaByType(media, media_type)
    IN  IF candidates = <<>> THEN NoneMedia
        ELSE LET i == ScanRegions(candidates, regions, 1)
             IN  IF i # 0 THEN SomeMedia(candidates[i])
                 ELSE SomeMedia(candidates[1])

\* ------------------------------------------------- the response mapper

\* str(v) of a JSON scalar: a number [n |-> 12] or a string [s |-> "12"].
Str(v) == IF Has(v, "n") THEN ToString(v.n) ELSE v.s

\* The configured language ignored: the first entry, whatever its language.
GetLocalizedText_First(text_list, language) ==
    IF text_list = <<>> THEN "" ELSE Get(text_list[1], "text", "")

\* _get_localized_text
RECURSIVE FirstInLanguage(_, _)
FirstInLanguage(text_list, language) ==
    IF text_list = <<>> THEN [found |-> FALSE, text |-> ""]
    ELSE IF Has(Head(text_list), "langue") /\ Head(text_list).langue = language
         THEN [found |-> TRUE, text |-> Get(Head(text_list), "text", "")]
         ELSE FirstInLanguage(Tail(text_list), language)

GetLocalizedText(text_list, language) ==
    IF text_list = <<>> THEN ""
    ELSE LET hit == FirstInLanguage(text_list, language)
         IN  IF hit.found THEN hit.text ELSE Get(text_list[1], "text", "")

\* The last entry taken in place of the first.
GetTextFromList_Last(item_list) ==
    IF item_list = <<>> THEN "" ELSE Get(item_list[Len(item_list)], "text", "")

\* _get_text_from_list
GetTextFromList(item_list) ==
    IF item_list = <<>> THEN "" ELSE Get(item_list[1], "text", "")

\* The regions ignored: the first entry, whatever its region.
GetReleaseDate_First(dates_list) ==
    IF dates_list = <<>> THEN "" ELSE Get(dates_list[1], "text", "")

\* _get_release_date
RECURSIVE FirstWorldwide(_)
FirstWorldwide(dates_list) ==
    IF dates_list = <<>> THEN [found |-> FALSE, text |-> ""]
    ELSE IF Has(Head(dates_list), "region")
            /\ Head(dates_list).region \in {"wor", "us"}
         THEN [found |-> TRUE, text |-> Get(Head(dates_list), "text", "")]
         ELSE FirstWorldwide(Tail(dates_list))

GetReleaseDate(dates_list) ==
    IF dates_list = <<>> THEN ""
    ELSE LET hit == FirstWorldwide(dates_list)
         IN  IF hit.found THEN hit.text ELSE Get(dates_list[1], "text", "")

\* jeu.get(key, {}).get('text', '')
TextOf(jeu, key) == IF Has(jeu, key) THEN Get(jeu[key], "text", "") ELSE ""

\* The URL tested for presence, not for content.
HasUrl_KeyPresent(media_item) == Has(media_item, "url")

\* `if media_url:` of the media loop: the URL is truthy.
HasUrl(media_item) == Get(media_item, "url", "") # ""

\* The inner media loop over one group: the items with a URL, in order.
GroupMedia(media_group) ==
    LET kept == SelectSeq(Get(media_group, "media", <<>>), HasUrl)
    IN  [i \in 1..Len(kept) |->
            GameMedia(Get(kept[i], "type", ""), kept[i].url,
                      Get(kept[i], "format", ""), Get(kept[i], "region", ""),
                      Get(kept[i], "size", ""))]

\* The groups taken last to first.
RECURSIVE ParseMedia_Reversed(_)
ParseMedia_Reversed(medias) ==
    IF medias = <<>> THEN <<>>
    ELSE ParseMedia_Reversed(Tail(medias)) \o GroupMedia(Head(medias))

\* The outer media loop over the groups.
RECURSIVE ParseMedia(_)
ParseMedia(medias) ==
    IF medias = <<>> THEN <<>>
    ELSE GroupMedia(Head(medias)) \o ParseMedia(Tail(medias))

\* A GameInfo built from a game node.
GameInfo(jeu, language) ==
    [id           |-> IF Has(jeu, "id") THEN Str(jeu.id) ELSE "",
     name         |-> GetLocalizedText(Get(jeu, "noms", <<>>), language),
     description  |-> GetLocalizedText(Get(jeu, "synopsis", <<>>), language),
     publisher    |-> GetTextFromList(Get(jeu, "editeur", <<>>)),
     developer    |-> GetTextFromList(Get(jeu, "developpeur", <<>>)),
     players      |-> TextOf(jeu, "joueurs"),
     rating       |-> TextOf(jeu, "note"),
     release_date |-> GetReleaseDate(Get(jeu, "dates", <<>>)),
     genre        |-> GetTextFromList(Get(jeu, "genres", <<>>)),
     system       |-> TextOf(jeu, "systeme"),
     media        |-> ParseMedia(Get(jeu, "medias", <<>>))]

\* The GameInfo of an operation that produced none.
NoGame ==
    [id |-> "", name |-> "", description |-> "", publisher |-> "",
     developer |-> "", players |-> "", rating |-> "", release_date |-> "",
     genre |-> "", system |-> "", media |-> <<>>]

\* _parse_game_data: GameNotFoundError (found = FALSE), or the GameInfo.
ParseGameData(data, language) ==
    IF ~Has(data, "response") THEN [found |-> FALSE, game |-> NoGame]
    ELSE IF ~Has(data.response, "jeu") THEN [found |-> FALSE, game |-> NoGame]
    ELSE [found |-> TRUE, game |-> GameInfo(data.response.jeu, language)]

\* ------------------------------------------------ calculate_file_hashes

\* What the files a caller may name hold: nothing, the byte "a", the byte "c".
FileContent(file) ==
    CASE file = "empty.nes" -> "empty"
      [] file = "c.nes"     -> "c"
      [] OTHER              -> "a"

\* The size in bytes of a file, st_size.
FileSize(file) == IF FileContent(file) = "empty" THEN 0 ELSE 1

\* hashlib.md5 over the chunks read: the 16 bytes of the digest.
Md5Digest(content) ==
    CASE content = "empty" ->
             <<212, 29, 140, 217, 143, 0, 178, 4, 233, 128, 9, 152, 236,
               248, 66, 126>>
      [] content = "a" ->
             <<12, 193, 117, 185, 192, 241, 182, 168, 49, 195, 153, 226,
               105, 119, 38, 97>>
      [] content = "c" ->
             <<74, 138, 8, 240, 157, 55, 183, 55, 149, 100, 144, 56, 64,
               139, 95, 51>>

\* hashlib.sha1 over the chunks read: the 20 bytes of the digest.
Sha1Digest(content) ==
    CASE content = "empty" ->
             <<218, 57, 163, 238, 94, 107, 75, 13, 50, 85, 191, 239, 149,
               96, 24, 144, 175, 216, 7, 9>>
      [] content = "a" ->
             <<134, 247, 228, 55, 250, 165, 167, 252, 225, 93, 29, 220,
               185, 234, 234, 234, 55, 118, 103, 184>>
      [] content = "c" ->
             <<132, 165, 22, 132, 27, 167, 122, 91, 70, 72, 222, 44, 208,
               223, 203, 48, 234, 70, 219, 180>>

\* zlib.crc32 chained over the chunks read, from 0: an unsigned 32-bit value,
\* kept as its two 16-bit halves.
Crc32(content) ==
    CASE content = "empty" -> [hi |-> 0, lo |-> 0]
      [] content = "a" -> [hi |-> 59575, lo |-> 48707]
      [] content = "c" -> [hi |-> 1721, lo |-> 57199]

HexDigits ==
    <<"0", "1", "2", "3", "4", "5", "6", "7", "8", "9",
      "a", "b", "c", "d", "e", "f">>

\* hexdigest(): two lower-case hexadecimal digits per byte.
HexDigest(digest) ==
    [i \in 1..(2 * Len(digest)) |->
        LET byte == digest[(i + 1) \div 2]
        IN  HexDigits[(IF i % 2 = 1 THEN byte \div 16 ELSE byte % 16) + 1]]

UpperChar(c) ==
    CASE c = "a" -> "A" [] c = "b" -> "B" [] c = "c" -> "C"
      [] c = "d" -> "D" [] c = "e" -> "E" [] c = "f" -> "F"
      [] OTHER -> c

\* str.upper()
Upper(chars) == [i \in DOMAIN chars |-> UpperChar(chars[i])]

\* value & 0xFFFFFFFF
Mask32(value) == [hi |-> value.hi % 65536, lo |-> value.lo % 65536]

\* The hexadecimal digits of a 16-bit half, most significant first.
HexHalf(half) ==
    <<HexDigits[(half \div 4096) + 1], HexDigits[((half \div 256) % 16) + 1],
      HexDigits[((half \div 16) % 16) + 1], HexDigits[(half % 16) + 1]>>

\* The digits of a number with no leading zero ("0" for zero).
RECURSIVE Significant(_)
Significant(digits) ==
    IF Len(digits) > 1 /\ Head(digits) = "0" THEN Significant(Tail(digits))
    ELSE digits

\* Zero padding on the left up to a width.
RECURSIVE ZeroPad(_, _)
ZeroPad(digits, width) ==
    IF Len(digits) >= width THEN digits ELSE ZeroPad(<<"0">> \o digits, width)

\* The format without its zero padding: "{:X}".
Format08X_Unpadded(value) ==
    Upper(Significant(HexHalf(value.hi) \o HexHalf(value.lo)))

\* f"{value:08X}": upper-case hexadecimal, zero-padded to at least 8 digits.
Format08X(value) ==
    ZeroPad(Upper(Significant(HexHalf(value.hi) \o HexHalf(value.lo))), 8)

\* The return value of calculate_file_hashes for a file it could read.
HashesOf(file) ==
    [md5  |-> Upper(HexDigest(Md5Digest(FileContent(file)))),
     sha1 |-> Upper(HexDigest(Sha1Digest(FileContent(file)))),
     crc  |-> Format08X(Mask32(Crc32(FileContent(file))))]

\* The files a caller may name that can be read.
ReadableFiles == {"readable", "empty.nes", "c.nes"}

\* calculate_file_hashes on each readable file.
FileHashes == [file \in ReadableFiles |-> HashesOf(file)]

\* ------------------------------------------------------ _build_params

\* An Optional[str]: None, or a string.
None == [none |-> TRUE]

Some(string) == [s |-> string]

\* The truth value Python gives an Optional[str].
Truthy(v) == Has(v, "s") /\ v.s # ""

\* The arguments of __init__ kept on the client, with their defaults.
DefaultConfig ==
    [dev_id |-> "dev", dev_password |-> "devpw",
     software_name |-> "ScreenScraperPython",
     user_id |-> None, user_password |-> None,
     max_requests_per_day |-> 10000]

\* dict.update(other)
Update(dict, other) ==
    [k \in DOMAIN dict \cup DOMAIN other |->
        IF k \in DOMAIN other THEN other[k] ELSE dict[k]]

\* The end-user pair added when either half is configured.
UserParams_Either(cfg) ==
    IF Truthy(cfg.user_id) \/ Truthy(cfg.user_password)
    THEN [ssid |-> cfg.user_id, sspassword |-> cfg.user_password]
    ELSE [k \in {} |-> None]

\* `if self.user_id and self.user_password: params.update({...})`
UserParams(cfg) ==
    IF Truthy(cfg.user_id) /\ Truthy(cfg.user_password)
    THEN [ssid |-> cfg.user_id, sspassword |-> cfg.user_password]
    ELSE [k \in {} |-> None]

\* _build_params(**kwargs); every value is an Optional[str].
BuildParams(cfg, kwargs) ==
    Update(Update([devid |-> Some(cfg.dev_id),
                   devpassword |-> Some(cfg.dev_password),
                   softname |-> Some(cfg.software_name),
                   output |-> Some("json")],
                  UserParams(cfg)),
           kwargs)

\* ------------------------------------------------------------- the state

VARIABLES
    now,                \* time.time(), in ticks
    request_delay,      \* self.request_delay
    language,           \* self.language
    config,             \* the credentials and limits given to __init__
    last_request_time,  \* self.last_request_time
    request_count,      \* self.request_count
    calls,              \* the outbound HTTP calls made so far: when, how, how each ended
    files,              \* the files under the output directory of download_media
    game_info,          \* the GameInfo a caller of the media operations holds
    call,               \* the last operation called, with its inputs
    result              \* how the last operation ended

vars == <<now, request_delay, language, config, last_request_time,
          request_count, calls, files, game_info, call, result>>

client == <<request_delay, language, config, last_request_time, request_count>>

\* time.time() at the start of a run: the epoch clock is far beyond any delay.
Epoch == MaxDelay + 1

EndOfTime == Epoch + Horizon

\* ------------------------------------------------- how an operation ends

\* An operation raises exc(prefix + detail), after `parses` parse attempts.
Raised(op, exc, prefix, detail, parses) ==
    [op |-> op, ret |-> "raise", exc |-> exc, prefix |-> prefix,
     detail |-> detail, game |-> NoGame, http |-> 0, parses |-> parses]

\* An operation returns: ret is "None" or "GameInfo".
Returned(op, ret, game, parses) ==
    [op |-> op, ret |-> ret, exc |-> "", prefix |-> "", detail |-> <<>>,
     game |-> game, http |-> 0, parses |-> parses]

\* The result r of an operation that issued n HTTP requests.
Sent(r, n) == [r EXCEPT !.http = n]

\* ------------------------------------------------------- _make_request

(* The text of an HTTP body is a sequence of fragments: "good" is a        *)
(* well-formed stretch of JSON (among them the repaired "]\n\t\t}"),       *)
(* "bad_close" is the known defect "],\n\t\t}", "junk" is any other        *)
(* malformation.  The empty text is no JSON document.                      *)
Fragments == {"good", "bad_close", "junk"}

\* response.json() / json.loads(text): whether the text parses.
Parses(text) == text # <<>> /\ \A i \in DOMAIN text : text[i] = "good"

\* The repair left out: the text parsed again as it came.
Repair_Nothing(text) == text

\* response.text.replace('],\n\t\t}', ']\n\t\t}')
Repair(text) ==
    [i \in DOMAIN text |-> IF text[i] = "bad_close" THEN "good" ELSE text[i]]

\* The two parse attempts of lines 243-248: how many were made, and whether
\* the last one succeeded.
ParseBody(text) ==
    IF Parses(text) THEN [ok |-> TRUE, parses |-> 1]
    ELSE [ok |-> Parses(Repair(text)), parses |-> 2]

\* The exception class chosen for header['erreur'], lines 256-261.
ErrorType(error_msg) ==
    IF Contains(Lower(error_msg), "quota") THEN "APIQuotaExceededError"
    ELSE IF Contains(Lower(error_msg), "fermC3A9")
            \/ Contains(Lower(error_msg), "closed")
         THEN "APIClosedError"
         ELSE "ScreenScraperError"

ErrorPrefix(exc) ==
    CASE exc = "APIQuotaExceededError" -> "API quota exceeded: "
      [] exc = "APIClosedError"        -> "API closed: "
      [] OTHER                         -> "API error: "

\* The request counted when it is sent, not when its body is parsed.
WrapTransport_Counted(net) ==
    [exc |-> "ScreenScraperError", prefix |-> "Request failed: ",
     detail |-> <<net>>, parses |-> 0, counted |-> TRUE, data |-> [none |-> TRUE]]

\* `except requests.RequestException as e`, line 265-266.
WrapTransport(net) ==
    [exc |-> "ScreenScraperError", prefix |-> "Request failed: ",
     detail |-> <<net>>, parses |-> 0, counted |-> FALSE, data |-> [none |-> TRUE]]

\* A json.JSONDecodeError of the second parse: no handler of _make_request
\* catches it.
ParseFailure(parses) ==
    [exc |-> "JSONDecodeError", prefix |-> "", detail |-> <<>>,
     parses |-> parses, counted |-> FALSE, data |-> [none |-> TRUE]]

\* The try of _make_request without its check of the error header.
HandleReply_NoErrorCheck(reply) ==
    IF reply.net # "ok" THEN WrapTransport(reply.net)
    ELSE LET body == ParseBody(reply.text)
         IN  IF ~body.ok THEN ParseFailure(body.parses)
             ELSE [exc |-> "", prefix |-> "", detail |-> <<>>,
                   parses |-> body.parses, counted |-> TRUE,
                   data |-> reply.data]

\* The body of the try of _make_request, lines 239-263, on the reply of the
\* service: the exception that leaves _make_request, or the data returned.
HandleReply(reply) ==
    IF reply.net # "ok" THEN WrapTransport(reply.net)
    ELSE LET body == ParseBody(reply.text)
         IN  IF ~body.ok THEN ParseFailure(body.parses)
             ELSE IF Has(reply.data, "header") /\ Has(reply.data.header, "erreur")
                  THEN LET error_msg == reply.data.header.erreur
                       IN  [exc |-> ErrorType(error_msg),
                            prefix |-> ErrorPrefix(ErrorType(error_msg)),
                            detail |-> error_msg, parses |-> body.parses,
                            counted |-> TRUE, data |-> [none |-> TRUE]]
                  ELSE [exc |-> "", prefix |-> "", detail |-> <<>>,
                        parses |-> body.parses, counted |-> TRUE,
                        data |-> reply.data]

\* _rate_limit without its sleep.
RateLimit_NoSleep(current_time, last, delay, oversleep) == current_time

\* _rate_limit: the clock when the sleep, if any, has ended.
RateLimit(current_time, last, delay, oversleep) ==
    LET time_since_last == current_time - last
    IN  IF time_since_last < delay
        THEN current_time + (delay - time_since_last) + oversleep
        ELSE current_time

\* The searches without their `except GameNotFoundError`.
Finish_Propagate(op, out) ==
    IF out.exc # "" THEN Raised(op, out.exc, out.prefix, out.detail, out.parses)
    ELSE LET parsed == ParseGameData(out.data, language)
         IN  IF parsed.found
             THEN Returned(op, "GameInfo", parsed.game, out.parses)
             ELSE Raised(op, "GameNotFoundError", "", <<>>, out.parses)

\* `try: ... except GameNotFoundError: return None` of the three searches.
Finish(op, out) ==
    IF out.exc # "" THEN Raised(op, out.exc, out.prefix, out.detail, out.parses)
    ELSE LET parsed == ParseGameData(out.data, language)
         IN  IF parsed.found
             THEN Returned(op, "GameInfo", parsed.game, out.parses)
             ELSE Returned(op, "None", NoGame, out.parses)

\* No parameters: the operation built none.
NoParams == [k \in {} |-> None]

\* str(self.PLATFORMS[platform]); the searches reach it for keys of the
\* table only.
SystemId(platform) ==
    IF Has(PLATFORMS, platform) THEN Some(ToString(PLATFORMS[platform]))
    ELSE None

\* The keyword arguments each search hands to _build_params.  The caller's
\* game name and game id are fixed texts; rom_name is left to its default,
\* the name of the file.
Kwargs(op, platform, file) ==
    CASE op = "search_by_name" ->
            [recherche |-> Some("Zelda"),
             systemeid |-> SystemId(platform)]
      [] op = "search_by_file" ->
            [md5       |-> [chars |-> FileHashes[file].md5],
             sha1      |-> [chars |-> FileHashes[file].sha1],
             crc       |-> [chars |-> FileHashes[file].crc],
             romnom    |-> Some(file),
             romtaille |-> Some(ToString(FileSize(file))),
             systemeid |-> SystemId(platform),
             romtype   |-> Some("rom")]
      [] OTHER -> [gameid |-> Some("1234")]

\* A failed exchange followed by a second GET.
Exchanges_Retry(stamp, out) ==
    IF out.exc # ""
    THEN <<[at |-> stamp, via |-> "session", failed |-> TRUE],
           [at |-> stamp, via |-> "session", failed |-> TRUE]>>
    ELSE <<[at |-> stamp, via |-> "session", failed |-> FALSE]>>

\* The outbound calls of one _make_request: the single self.session.get of
\* line 239, whatever becomes of its reply.
Exchanges(stamp, out) ==
    <<[at |-> stamp, via |-> "session", failed |-> out.exc # ""]>>

NoReply == [net |-> "", text |-> <<>>, data |-> [none |-> TRUE]]

\* The rate limit run before the operation's checks: the clock stamped.
EndEarly_Stamped(op, platform, file, hashed, r) ==
    /\ call' = [op |-> op, platform |-> platform, file |-> file,
                reply |-> NoReply, params |-> NoParams, hashed |-> hashed]
    /\ last_request_time' = now
    /\ UNCHANGED <<now, request_delay, language, config, request_count,
                   calls, files, game_info>>
    /\ result' = Sent(r, Len(calls') - Len(calls))

\* An operation that ends before any request: nothing of the client changes.
\* hashed tells whether calculate_file_hashes was called on the file first.
EndEarly(op, platform, file, hashed, r) ==
    /\ call' = [op |-> op, platform |-> platform, file |-> file,
                reply |-> NoReply, params |-> NoParams, hashed |-> hashed]
    /\ UNCHANGED <<now, client, calls, files, game_info>>
    /\ result' = Sent(r, Len(calls') - Len(calls))

\* One _make_request and the mapping of its data, by operation op: the rate
\* limit, the HTTP exchange, the bookkeeping.  The GET is issued at the
\* instant _rate_limit stamps last_request_time (nothing but the formatting
\* of the URL lies between the two).  time.sleep may overshoot.
Exchange(op, platform, file, replies, durations, limit) ==
    /\ Len(calls) < limit
    /\ \E oversleep \in (IF now - last_request_time < request_delay
                         THEN 0..MaxOversleep ELSE {0}),
          duration \in durations, reply \in replies :
        LET stamp == RateLimit(now, last_request_time, request_delay, oversleep)
            out   == HandleReply(reply)
        IN  /\ stamp + duration <= EndOfTime
            /\ last_request_time' = stamp
            /\ now' = stamp + duration
            /\ request_count' =
                   IF out.counted THEN request_count + 1 ELSE request_count
            /\ calls' = calls \o Exchanges(stamp, out)
            /\ call' = [op |-> op, platform |-> platform, file |-> file,
                        reply |-> reply,
                        params |-> BuildParams(config,
                                               Kwargs(op, platform, file)),
                        hashed |-> op = "search_by_file"]
            /\ result' = Sent(Finish(op, out), Len(calls') - Len(calls))
            /\ UNCHANGED <<request_delay, language, config, files, game_info>>

\* The advisory maximum enforced: a call refused once the counter reached it.
Request_Enforced(op, platform, file, replies, durations, limit) ==
    IF request_count >= config.max_requests_per_day
    THEN EndEarly(op, platform, file, op = "search_by_file",
                  Raised(op, "APIQuotaExceededError", "Daily maximum reached",
                         <<>>, 0))
    ELSE Exchange(op, platform, file, replies, durations, limit)

\* _make_request as the searches call it: the exchange follows whatever
\* request_count and max_requests_per_day are; neither is read.
Request(op, platform, file, replies, durations, limit) ==
    Exchange(op, platform, file, replies, durations, limit)

\* ------------------------------------------------------------ the inputs

\* Platform names a caller may pass: keys of PLATFORMS and names that are not
\* (the table's keys are lower case).
PlatformInputs == {"nes", "psx", "NES", "invalid_platform"}

\* The file a caller names: readable, absent, or present but not openable.
FileInputs == {"readable", "missing", "unreadable"}

TransportFailures == {"Timeout", "ConnectionError", "HTTPError"}

NoData == [none |-> TRUE]

\* Game nodes of the service's replies to a search.
SearchGames ==
    { [id |-> [n |-> 1234],
       noms |-> << [langue |-> "fr", text |-> "Bonjour"],
                   [langue |-> "en", text |-> "Hello"] >>,
       medias |-> << [media |-> << [type |-> "box-2D", url |-> "http://a",
                                    format |-> "png", region |-> "eu"],
                                   [type |-> "ss", url |-> ""] >>] >>],
      [id |-> [s |-> "77"]] }

Headers(messages) ==
    {[APIversion |-> "2"]} \cup {[APIversion |-> "2", erreur |-> m] : m \in messages}

Responses(games) ==
    {[serveurs |-> "cpu1"]} \cup {[serveurs |-> "cpu1", jeu |-> g] : g \in games}

\* The parsed documents: each with or without a header, with or without a
\* response wrapper.
Documents(messages, games) ==
    {[header |-> h, response |-> r] :
        h \in Headers(messages), r \in Responses(games)}
    \cup {[header |-> h] : h \in Headers(messages)}
    \cup {[response |-> r] : r \in Responses(games)}
    \cup {[ssuser |-> "u"]}

\* A body is a text and, when the text parses (repaired or not), the
\* document it denotes.
Bodies(texts, documents) ==
    {[net |-> "ok", text |-> t, data |-> NoData] :
        t \in {x \in texts : ~Parses(Repair(x))}}
    \cup {[net |-> "ok", text |-> t, data |-> d] :
        t \in {x \in texts : Parses(Repair(x))}, d \in documents}

\* The replies of the service: a transport failure, or a 2xx body.
Replies(texts, documents) ==
    {[net |-> f, text |-> <<>>, data |-> NoData] : f \in TransportFailures}
    \cup Bodies(texts, documents)

\* The replies of the timing specification: one of each kind.
FewReplies ==
    {[net |-> "Timeout", text |-> <<>>, data |-> NoData]}
    \cup Bodies({<<"good">>, <<"junk">>},
                {[header |-> [APIversion |-> "2", erreur |-> <<"Quota">>]],
                 [header |-> [APIversion |-> "2"],
                  response |-> [serveurs |-> "cpu1"]]})

\* The replies of the response-handling specification.
AllReplies ==
    Replies(SeqsUpTo(Fragments, MaxDefects + 1), Documents(Messages, SearchGames))

\* ------------------------------------------------------- the operations

\* ScreenScraperClient.calculate_file_hashes: the exception it raises, if any.
CalculateFileHashes(file) ==
    CASE file = "missing"    -> "FileNotFoundError"
      [] file = "unreadable" -> "PermissionError"
      [] OTHER               -> ""

\* The failure of the fingerprint raised to the caller.
OnHashFailure_Raise(exc) == Raised("search_by_file", exc, "", <<>>, 0)

\* `except Exception as e: logger.error(...); return None` of search_by_file.
OnHashFailure(exc) == Returned("search_by_file", "None", NoGame, 0)

\* The platform check left out.
Supported_Any(platform) == TRUE

\* `if platform not in self.PLATFORMS`
Supported(platform) == platform \in DOMAIN PLATFORMS

\* A caller lets time pass between two operations.
Tick ==
    /\ now < EndOfTime
    /\ now' = now + 1
    /\ UNCHANGED <<client, calls, files, game_info, call, result>>

SearchByName(replies, durations, limit) ==
    \E platform \in PlatformInputs :
        IF ~Supported(platform)
        THEN EndEarly("search_by_name", platform, "", FALSE,
                      Raised("search_by_name", "ValueError",
                             "Unsupported platform: ", <<platform>>, 0))
        ELSE Request("search_by_name", platform, "", replies, durations, limit)

SearchByFileOf(files_named, replies, durations, limit) ==
    \E platform \in PlatformInputs, file \in files_named :
        IF ~Supported(platform)
        THEN EndEarly("search_by_file", platform, file, FALSE,
                      Raised("search_by_file", "ValueError",
                             "Unsupported platform: ", <<platform>>, 0))
        ELSE IF CalculateFileHashes(file) # ""
             THEN EndEarly("search_by_file", platform, file, TRUE,
                           OnHashFailure(CalculateFileHashes(file)))
             ELSE Request("search_by_file", platform, file, replies, durations,
                          limit)

\* search_by_file over the files of the timing runs.
SearchByFile(replies, durations, limit) ==
    SearchByFileOf(FileInputs, replies, durations, limit)

SearchById(replies, durations, limit) ==
    Request("search_by_id", "", "", replies, durations, limit)

\* -------------------------------------------------- the specifications

NoCall == [op |-> "", platform |-> "", file |-> "", reply |-> NoReply,
           params |-> NoParams, hashed |-> FALSE]

NoResult == Returned("", "", NoGame, 0)

\* A client just constructed.
InitClient(delays, languages) ==
    /\ now = Epoch
    /\ request_delay \in delays
    /\ language \in languages
    /\ config = DefaultConfig
    /\ last_request_time = 0
    /\ request_count = 0
    /\ calls = <<>>
    /\ files = {}
    /\ game_info = NoGame
    /\ call = NoCall
    /\ result = NoResult

\* Timing: the searches of one client under a passing clock.
Init == InitClient(0..MaxDelay, {"en"})

Next ==
    \/ Tick
    \/ SearchByName(FewReplies, 0..MaxDuration, MaxCalls)
    \/ SearchByFile(FewReplies, 0..MaxDuration, MaxCalls)
    \/ SearchById(FewReplies, 0..MaxDuration, MaxCalls)

Spec == Init /\ [][Next]_vars

\* Response handling: one request of a new client with no delay, over every
\* reply, the clock at rest.
InitReplies == InitClient({0}, {"en"})

NextReplies ==
    \/ SearchByName(AllReplies, {0}, 1)
    \/ SearchByFile(AllReplies, {0}, 1)
    \/ SearchById(AllReplies, {0}, 1)

SpecReplies == InitReplies /\ [][NextReplies]_vars

\* ------------------------------------- request parameters, fingerprints

\* The files named in these runs: three that can be read, two that cannot.
ParamFiles == ReadableFiles \cup {"missing", "unreadable"}

\* The end-user credentials a client may be built with: each absent, empty
\* or set.
Configs ==
    {[DefaultConfig EXCEPT !.user_id = u, !.user_password = pw] :
        u \in {None, Some(""), Some("u")},
        pw \in {None, Some(""), Some("pw")}}

\* One reply: a game found.
OneReply ==
    {[net |-> "ok", text |-> <<"good">>,
      data |-> [header |-> [APIversion |-> "2"],
                response |-> [serveurs |-> "cpu1",
                              jeu |-> [id |-> [s |-> "77"]]]]]}

\* calculate_file_hashes called directly (it is a static method).
CalculateHashes ==
    /\ \E file \in ParamFiles :
        /\ call' = [op |-> "calculate_file_hashes", platform |-> "",
                    file |-> file, reply |-> NoReply, params |-> NoParams,
                    hashed |-> TRUE]
        /\ result' =
               IF CalculateFileHashes(file) # ""
               THEN [op |-> "calculate_file_hashes", ret |-> "raise",
                     exc |-> CalculateFileHashes(file),
                     hashes |-> [md5 |-> <<>>, sha1 |-> <<>>, crc |-> <<>>],
                     http |-> 0]
               ELSE [op |-> "calculate_file_hashes", ret |-> "tuple",
                     exc |-> "", hashes |-> FileHashes[file], http |-> 0]
    /\ UNCHANGED <<now, client, calls, files, game_info>>

InitParams ==
    /\ now = Epoch
    /\ request_delay = 0
    /\ language = "en"
    /\ config \in Configs
    /\ last_request_time = 0
    /\ request_count = 0
    /\ calls = <<>>
    /\ files = {}
    /\ game_info = NoGame
    /\ call = NoCall
    /\ result = NoResult

NextParams ==
    \/ SearchByName(OneReply, {0}, 1)
    \/ SearchByFileOf(ParamFiles, OneReply, {0}, 1)
    \/ SearchById(OneReply, {0}, 1)
    \/ CalculateHashes

SpecParams == InitParams /\ [][NextParams]_vars

\* -------------------------------------------------- the daily maximum

\* A client built with a daily maximum its counter soon reaches.
InitQuota ==
    /\ now = Epoch
    /\ request_delay = 0
    /\ language = "en"
    /\ config \in {[DefaultConfig EXCEPT !.max_requests_per_day = m] :
                      m \in 0..1}
    /\ last_request_time = 0
    /\ request_count = 0
    /\ calls = <<>>
    /\ files = {}
    /\ game_info = NoGame
    /\ call = NoCall
    /\ result = NoResult

NextQuota ==
    \/ SearchByName(FewReplies, {0}, MaxCalls)
    \/ SearchByFile(FewReplies, {0}, MaxCalls)
    \/ SearchById(FewReplies, {0}, MaxCalls)

SpecQuota == InitQuota /\ [][NextQuota]_vars

\* ------------------------------------------------------ download_media

\* c.isalnum() on the characters a name is made of here.
IsAlnum(c) == c \in {"Z", "e", "7"}

\* str.rstrip(): the trailing white space removed.
RECURSIVE RStrip(_)
RStrip(chars) ==
    IF chars # <<>> /\ chars[Len(chars)] = " "
    THEN RStrip(SubSeq(chars, 1, Len(chars) - 1))
    ELSE chars

\* safe_name of line 490, the name given character by character.
SafeName(name) ==
    RStrip(SelectSeq(name, LAMBDA c : IsAlnum(c) \/ c \in {" ", "-", "_"}))

\* output_dir / f"{safe_name}_{media_type}.{media.format}"
FilePath(name, media_type, format) ==
    [stem |-> SafeName(name), kind |-> media_type, ext |-> format]

\* results[media_type] = value
Put(dict, key, value) ==
    [k \in DOMAIN dict \cup {key} |-> IF k = key THEN value ELSE dict[k]]

EmptyDict == [k \in {} |-> FALSE]

(* GameMedia.download ends in one of three ways: "ok" (the file is written, *)
(* True), "failed" (an exception before the file is opened, False),        *)
(* "partial" (an exception after the file is opened: a file is left,       *)
(* False).                                                                 *)
DownloadOutcomes == {"ok", "failed", "partial"}

\* A pass that records nothing for a kind with no candidate.
DownloadStep_SkipMissing(acc, game, media_type, prefs, outcome, duration) ==
    LET best == GetBestMedia(game.media, media_type, prefs)
    IN  IF best.found
        THEN [results  |-> Put(acc.results, media_type, outcome = "ok"),
              written  |-> IF outcome \in {"ok", "partial"}
                           THEN acc.written \cup
                                {FilePath(game.name, media_type, best.media.format)}
                           ELSE acc.written,
              attempts |-> Append(acc.attempts, media_type),
              fetched  |-> Append(acc.fetched,
                                  [at |-> acc.clock, via |-> "requests",
                                   failed |-> outcome # "ok"]),
              clock    |-> acc.clock + duration]
        ELSE acc

\* What one pass of the loop of download_media does to the results, the
\* files written and the downloads attempted; outcome is how the download of
\* this pass ends and duration the time it takes.  GameMedia.download issues
\* requests.get(self.url, stream=True) as soon as it is called.
DownloadStep(acc, game, media_type, preferred_regions, outcome, duration) ==
    LET best == GetBestMedia(game.media, media_type, preferred_regions)
    IN  IF best.found
        THEN [results  |-> Put(acc.results, media_type, outcome = "ok"),
              written  |-> IF outcome \in {"ok", "partial"}
                           THEN acc.written \cup
                                {FilePath(game.name, media_type, best.media.format)}
                           ELSE acc.written,
              attempts |-> Append(acc.attempts, media_type),
              fetched  |-> Append(acc.fetched,
                                  [at |-> acc.clock, via |-> "requests",
                                   failed |-> outcome # "ok"]),
              clock    |-> acc.clock + duration]
        ELSE [acc EXCEPT !.results = Put(acc.results, media_type, FALSE)]

\* The loop of download_media from the k-th requested kind on.
RECURSIVE DownloadLoop(_, _, _, _, _, _, _)
DownloadLoop(acc, game, media_types, preferred_regions, outcomes, duration, k) ==
    IF k > Len(media_types) THEN acc
    ELSE DownloadLoop(DownloadStep(acc, game, media_types[k], preferred_regions,
                                   outcomes[k], duration),
                      game, media_types, preferred_regions, outcomes, duration,
                      k + 1)

\* --------------------------------------------- the media specification

MediaKinds == {"box-2D", "ss"}

\* The descriptors of the records handed to the media operations.
MediaInputs ==
    {GameMedia("box-2D", "http://x", d[1], d[2], "") :
        d \in {<<"png", "jp">>, <<"jpg", "jp">>, <<"png", "EU">>,
               <<"jpg", "fr">>}}
    \cup {GameMedia("ss", "http://x", d[1], d[2], "") :
            d \in {<<"png", "jp">>, <<"jpg", "EU">>}}

\* The preferred_regions arguments: not supplied, or a list.
PrefsInputs == {NoPrefs} \cup {Prefs(l) : l \in SeqsUpTo({"eu", "Jp"}, MaxPrefs)}

\* The game names, character by character.
NameInputs == {<<"Z", ":", "7", " ">>}

\* How the downloads of one call may end: an outcome for each requested kind
\* that has a candidate, "none" for the others.
OutcomeInputs(game, media_types, preferred_regions) ==
    {o \in [1..Len(media_types) -> DownloadOutcomes \cup {"none"}] :
        \A k \in 1..Len(media_types) :
            o[k] = "none" <=>
                ~GetBestMedia(game.media, media_types[k], preferred_regions).found}

\* download_media before its loop, at time t.
StartDownload(t) ==
    [results |-> EmptyDict, written |-> {}, attempts |-> <<>>,
     fetched |-> <<>>, clock |-> t]

NoDownload == StartDownload(0)

GetBest ==
    /\ result.op = ""
    /\ \E media_type \in MediaKinds, preferred_regions \in PrefsInputs :
        /\ call' = [op |-> "get_best_media", media_type |-> media_type,
                    preferred_regions |-> preferred_regions]
        /\ result' = [op |-> "get_best_media",
                      best |-> GetBestMedia(game_info.media, media_type,
                                            preferred_regions)]
    /\ UNCHANGED <<now, client, calls, files, game_info>>

\* download_media on the record held: the directory, then one pass of the
\* loop per requested kind.  Nothing of it reads or writes the client's
\* last_request_time or request_count.
Download(media_typess, prefss, durations) ==
    \E media_types \in media_typess, preferred_regions \in prefss,
       out_dir_ok \in BOOLEAN :
        IF ~out_dir_ok
        THEN /\ call' = [op |-> "download_media", media_types |-> media_types,
                         preferred_regions |-> preferred_regions,
                         out_dir_ok |-> FALSE, outcomes |-> <<>>]
             /\ result' = [op |-> "download_media", ret |-> "raise",
                           exc |-> "OSError", done |-> NoDownload]
             /\ UNCHANGED <<now, client, calls, files, game_info>>
        ELSE \E outcomes \in OutcomeInputs(game_info, media_types,
                                           preferred_regions),
                duration \in durations :
                LET done == DownloadLoop(StartDownload(now), game_info,
                                         media_types, preferred_regions,
                                         outcomes, duration, 1)
                IN  /\ done.clock <= EndOfTime
                    /\ call' = [op |-> "download_media",
                                media_types |-> media_types,
                                preferred_regions |-> preferred_regions,
                                out_dir_ok |-> TRUE, outcomes |-> outcomes]
                    /\ result' = [op |-> "download_media", ret |-> "map",
                                  exc |-> "", done |-> done]
                    /\ files' = files \cup done.written
                    /\ calls' = calls \o done.fetched
                    /\ now' = done.clock
                    /\ UNCHANGED <<client, game_info>>

\* download_media hands preferred_regions on to get_best_media untouched:
\* not supplied, or one list.
DownloadMedia ==
    /\ result.op = ""
    /\ Download(SeqsUpTo(MediaKinds, MaxKinds), {NoPrefs, Prefs(<<"Jp">>)}, {0})

\* The media operations on a record a caller holds.
InitMedia ==
    /\ now = Epoch
    /\ request_delay = 0
    /\ language = "en"
    /\ config = DefaultConfig
    /\ last_request_time = 0
    /\ request_count = 0
    /\ calls = <<>>
    /\ files = {}
    /\ game_info \in {[NoGame EXCEPT !.name = n, !.media = m] :
                        n \in NameInputs, m \in SeqsUpTo(MediaInputs, MaxMedia)}
    /\ call = NoCall
    /\ result = NoResult

NextMedia == GetBest \/ DownloadMedia

SpecMedia == InitMedia /\ [][NextMedia]_vars

\* ---------------------------------------- searches and downloads together

\* A record with one descriptor of each kind, as a search returned it.
HeldGame ==
    [NoGame EXCEPT !.name = <<"Z">>,
                   !.media = <<GameMedia("box-2D", "http://a", "png", "eu", ""),
                               GameMedia("ss", "http://b", "jpg", "us", "")>>]

\* A client with a delay configured, whose caller holds a record.
InitOutbound ==
    /\ now = Epoch
    /\ request_delay \in 1..MaxDelay
    /\ language = "en"
    /\ config = DefaultConfig
    /\ last_request_time = 0
    /\ request_count = 0
    /\ calls = <<>>
    /\ files = {}
    /\ game_info = HeldGame
    /\ call = NoCall
    /\ result = NoResult

\* download_media called between searches.
FetchMedia ==
    /\ Len(calls) < MaxCalls
    /\ Download({<<"box-2D">>, <<"box-2D", "ss">>}, {NoPrefs}, 0..MaxDuration)

\* The searches differ only in what precedes _make_request: one stands for
\* the three here.
NextOutbound ==
    \/ Tick
    \/ SearchById(FewReplies, {0}, MaxCalls)
    \/ FetchMedia

SpecOutbound == InitOutbound /\ [][NextOutbound]_vars

\* ------------------------------------------ the mapper's specification

MediaItems ==
    {[type |-> "box-2D", url |-> "http://a", format |-> "png", region |-> "eu"],
     [type |-> "ss", url |-> "http://b", size |-> "640"],
     [type |-> "box-2D", url |-> ""],
     [type |-> "ss", format |-> "jpg"]}

MediaGroups(media_items) ==
    {[media |-> items] : items \in SeqsUpTo(media_items, MaxItems)}
    \cup {[parent |-> "jeu"]}

ParseGames(media_items) ==
    {[id |-> [n |-> 1234],
      noms |-> << [langue |-> "fr", text |-> "Bonjour"],
                  [langue |-> "en", text |-> "Hello"] >>,
      medias |-> medias] : medias \in SeqsUpTo(MediaGroups(media_items), MaxGroups)}
    \cup {[id |-> [s |-> "77"]]}

ParseDocuments(media_items) ==
    {[header |-> [APIversion |-> "2"], response |-> r] :
        r \in Responses(ParseGames(media_items))}
    \cup {[header |-> [APIversion |-> "2"]]}

\* _parse_game_data on a document, called as the searches call it.
ParseGame ==
    /\ result.op = ""
    /\ result' = LET parsed == ParseGameData(call.data, language)
                 IN  IF parsed.found
                     THEN Returned("_parse_game_data", "GameInfo", parsed.game, 0)
                     ELSE Raised("_parse_game_data", "GameNotFoundError", "",
                                 <<>>, 0)
    /\ call' = [call EXCEPT !.op = "_parse_game_data"]
    /\ UNCHANGED <<now, client, calls, files, game_info>>

InitParse ==
    /\ now = Epoch
    /\ request_delay = 0
    /\ language = "en"
    /\ config = DefaultConfig
    /\ last_request_time = 0
    /\ request_count = 0
    /\ calls = <<>>
    /\ files = {}
    /\ game_info = NoGame
    /\ call \in {[op |-> "", data |-> d] : d \in ParseDocuments(MediaItems)}
    /\ result = NoResult

NextParse == ParseGame

SpecParse == InitParse /\ [][NextParse]_vars

\* ------------------------------------------ the mapper's text selections

\* Entries of a localized-text list: a language and a text, either of which
\* the service may leave out.
TextEntries ==
    {[langue |-> "fr", text |-> "Bonjour"], [langue |-> "en", text |-> "Hello"],
     [langue |-> "en", text |-> "Hi"], [text |-> "Salut"], [langue |-> "en"]}

\* Entries of a release-date list: a region and a date.
DateEntries ==
    {[region |-> "jp", text |-> "1989"], [region |-> "wor", text |-> "1990"],
     [region |-> "us", text |-> "1991"], [text |-> "1988"], [region |-> "us"]}

\* Game nodes whose five text fields carry one list, and game nodes with a
\* list of release dates.
TextGames ==
    {[noms |-> l, synopsis |-> l, editeur |-> l, developpeur |-> l,
      genres |-> l] : l \in SeqsUpTo(TextEntries, MaxTexts)}
    \cup {[dates |-> d] : d \in SeqsUpTo(DateEntries, MaxTexts)}

TextDocuments ==
    {[header |-> [APIversion |-> "2"], response |-> [jeu |-> g]] :
        g \in TextGames}

\* _parse_game_data of a client configured for a language the lists hold
\* ("en") or do not hold ("de").
InitText ==
    /\ now = Epoch
    /\ request_delay = 0
    /\ language \in {"en", "de"}
    /\ config = DefaultConfig
    /\ last_request_time = 0
    /\ request_count = 0
    /\ calls = <<>>
    /\ files = {}
    /\ game_info = NoGame
    /\ call \in {[op |-> "", data |-> d] : d \in TextDocuments}
    /\ result = NoResult

NextText == ParseGame

SpecText == InitText /\ [][NextText]_vars

\* ------------------------------------------------------------ the claims

SearchOps == {"search_by_name", "search_by_file", "search_by_id"}

\* What the caller of an operation sees of its result.
Seen(r) == [ret |-> r.ret, exc |-> r.exc, prefix |-> r.prefix,
            detail |-> r.detail, game |-> r.game]

\* C1: any two consecutive outbound API calls of one client are at least
\* request_delay apart, whether the earlier call succeeded or failed.
C1_MinimumGap ==
    \A i \in 1..(Len(calls) - 1) : calls[i + 1].at - calls[i].at >= request_delay

\* A call that followed a failed call at once and was held back for the
\* whole remainder of the delay.
C1_Witness ==
    /\ Len(calls) >= 2
    /\ request_delay = MaxDelay
    /\ calls[1].failed
    /\ calls[2].at - calls[1].at = request_delay
    /\ now = calls[2].at

\* C2: search_by_name and search_by_file with a platform name that is no key
\* of PLATFORMS raise ValueError (the InvalidPlatform condition) and issue no
\* HTTP request, whatever the other inputs and the state of the client.
C2_InvalidPlatform ==
    [][(/\ result'.op \in {"search_by_name", "search_by_file"}
        /\ call'.platform \notin DOMAIN PLATFORMS)
       => (/\ result'.ret = "raise"
           /\ result'.exc = "ValueError"
           /\ result'.http = 0
           /\ calls' = calls
           /\ last_request_time' = last_request_time
           /\ request_count' = request_count)]_vars

\* An invalid platform rejected by a client that has made calls before, for
\* a file that is missing.
C2_Witness ==
    /\ result.op = "search_by_file"
    /\ call.platform = "NES"
    /\ call.file = "missing"
    /\ result.exc = "ValueError"
    /\ Len(calls) >= 1

\* C6, as claimed: search_by_file on a path that cannot be opened or read
\* surfaces a typed failure to its caller, distinguishable from the empty
\* result of NotFound.
C6_FileUnreadableSurfaces ==
    (/\ result.op = "search_by_file"
     /\ call.platform \in DOMAIN PLATFORMS
     /\ call.file \in {"missing", "unreadable"})
    => (result.ret = "raise" /\ result.exc \in {"FileNotFoundError", "PermissionError"})

\* C6, amended: search_by_file with a supported platform on a path that
\* cannot be opened or read raises nothing: it issues no HTTP request and
\* returns None, the very result it returns for NotFound.
C6_FileUnreadableIsNone ==
    (/\ result.op = "search_by_file"
     /\ call.platform \in DOMAIN PLATFORMS
     /\ call.file \in {"missing", "unreadable"})
    => (/\ result.ret = "None"
        /\ result.exc = ""
        /\ result.http = 0
        /\ call.reply = NoReply
        /\ Seen(result) =
              Seen(Finish("search_by_file",
                          HandleReply([net |-> "ok", text |-> <<"good">>,
                                       data |-> [ssuser |-> "u"]]))))

\* An unopenable file given to a client with a supported platform.
C6_Witness ==
    /\ result.op = "search_by_file"
    /\ call.platform = "psx"
    /\ call.file = "unreadable"
    /\ result.ret = "None"

\* The document of the last reply.
Doc == call.reply.data

\* The last operation is a search whose request came back with a 2xx body.
GotBody == result.op \in SearchOps /\ call.reply.net = "ok"

\* A text that is a JSON document as it stands.
WellFormed(text) == text # <<>> /\ \A i \in DOMAIN text : text[i] = "good"

\* A malformed text whose only malformation is the known defect.
OnlyKnownDefect(text) ==
    /\ \E i \in DOMAIN text : text[i] = "bad_close"
    /\ \A i \in DOMAIN text : text[i] \in {"good", "bad_close"}

\* The text of the last reply denotes a document, as it stands or repaired.
GotDocument == GotBody /\ (WellFormed(call.reply.text) \/ OnlyKnownDefect(call.reply.text))

HasError(doc) == Has(doc, "header") /\ Has(doc.header, "erreur")

LacksGame(doc) == ~Has(doc, "response") \/ ~Has(doc.response, "jeu")

\* C3: when the response parses, reports no error, and lacks the 'response'
\* wrapper or the game node inside it, the mapper yields NotFound and each
\* of the three searches returns None instead of raising.
C3_NotFoundIsNone ==
    (GotDocument /\ ~HasError(Doc) /\ LacksGame(Doc))
    => (/\ ~ParseGameData(Doc, language).found
        /\ result.ret = "None"
        /\ result.exc = "")

\* A search by id answered by a response wrapper with no game node, in a
\* body that had to be repaired.
C3_Witness ==
    /\ result.op = "search_by_id"
    /\ call.reply.text = <<"bad_close">>
    /\ Has(Doc, "header") /\ Has(Doc, "response") /\ ~Has(Doc.response, "jeu")
    /\ result.ret = "None"

\* The message holds the keyword kw, as written or whatever its case.
Mentions(error_msg, kw) ==
    \E i \in DOMAIN error_msg : error_msg[i] = kw \/ LowerWord(error_msg[i]) = kw

\* The closed-service keywords of line 258.
ClosedKeywords == {"fermC3A9", "closed"}

\* C4: after a successful parse, a header with an error field makes the call
\* fail with the type its keyword selects: QuotaExceeded for the quota
\* keyword, else ServiceClosed for a closed-service keyword, else the generic
\* error, each carrying the message; without the field none is raised.
C4_KeywordSelectsType ==
    GotDocument =>
        IF HasError(Doc)
        THEN LET error_msg == Doc.header.erreur
                 quota  == Mentions(error_msg, "quota")
                 closed == \E kw \in ClosedKeywords : Mentions(error_msg, kw)
             IN  /\ result.ret = "raise"
                 /\ result.detail = error_msg
                 /\ quota => result.exc = "APIQuotaExceededError"
                 /\ (~quota /\ closed) => result.exc = "APIClosedError"
                 /\ (~quota /\ ~closed) => result.exc = "ScreenScraperError"
        ELSE result.exc \notin {"APIQuotaExceededError", "APIClosedError",
                                "ScreenScraperError"}

\* C5: a body that fails to parse is repaired and parsed once more: with
\* only the known defect the call goes on as for the well-formed body, any
\* other malformed body raises json.JSONDecodeError (MalformedResponse); the
\* body is parsed at most twice and one HTTP request is made.
C5_OneRepair ==
    GotBody =>
        /\ result.parses \in {1, 2}
        /\ result.http = 1
        /\ Len(calls) = 1
        /\ WellFormed(call.reply.text) => result.parses = 1
        /\ ~WellFormed(call.reply.text) => result.parses = 2
        /\ OnlyKnownDefect(call.reply.text) =>
              Seen(result) =
                Seen(Finish(result.op,
                            HandleReply([call.reply EXCEPT !.text = <<"good">>])))
        /\ (~WellFormed(call.reply.text) /\ ~OnlyKnownDefect(call.reply.text)) =>
              (result.ret = "raise" /\ result.exc = "JSONDecodeError")

\* A body with the known defect, repaired, parsed, and mapped to a record.
C5_Witness ==
    /\ GotBody
    /\ call.reply.text = <<"good", "bad_close">>
    /\ result.parses = 2
    /\ result.ret = "GameInfo"

\* The conditions of the error taxonomy, one reply of each.
TransportSample == [net |-> "Timeout", text |-> <<>>, data |-> NoData]

ErrorSample(error_msg) ==
    [net |-> "ok", text |-> <<"good">>,
     data |-> [header |-> [APIversion |-> "2", erreur |-> error_msg]]]

MalformedSample == [net |-> "ok", text |-> <<"junk">>, data |-> NoData]

FailureSamples ==
    {TransportSample, ErrorSample(<<"erreur">>), ErrorSample(<<"Quota">>),
     ErrorSample(<<"closed">>), MalformedSample}

\* The ScreenScraperError hierarchy of lines 96-113.
TypedConditions ==
    {"ScreenScraperError", "APIQuotaExceededError", "APIClosedError",
     "GameNotFoundError"}

\* C7: the failures a search surfaces are pairwise distinguishable by type
\* (a transport failure, a service-reported error, an exhausted quota, a
\* closed service, a malformed response), and none is a raw transport or
\* parser exception.
C7_DistinctTypedFailures ==
    (result.op \in SearchOps /\ call.reply \in FailureSamples)
    => (/\ result.ret = "raise"
        /\ result.exc \in TypedConditions
        /\ \A other \in FailureSamples \ {call.reply} :
              HandleReply(other).exc # result.exc)

Max(S) == CHOOSE x \in S : \A y \in S : x >= y

\* C8: get_best_media(kind, prefs), with C the descriptors of that kind in
\* list order: none if C is empty; else the first descriptor of C whose
\* region equals, whatever the case, the earliest preference (of prefs, or of
\* [us, wor, eu, jp] when prefs is not supplied) that matches any descriptor
\* of C; else the first of C.  Regions [jp, eu] under the default give eu.
C8_BestMedia ==
    result.op = "get_best_media" =>
        LET media   == game_info.media
            at      == {i \in DOMAIN media : media[i].media_type = call.media_type}
            regions == IF call.preferred_regions.given
                       THEN call.preferred_regions.list
                       ELSE <<"us", "wor", "eu", "jp">>
            same(i, r) == LowerWord(media[i].region) = LowerWord(regions[r])
            matching == {r \in DOMAIN regions : \E i \in at : same(i, r)}
        IN  IF at = {} THEN ~result.best.found
            ELSE /\ result.best.found
                 /\ result.best.media =
                      IF matching = {} THEN media[Min(at)]
                      ELSE media[Min({i \in at : same(i, Min(matching))})]

\* Two box-2D candidates of regions jp and EU, in that order, and no
\* preference supplied: the EU one is returned.
C8_Witness ==
    /\ result.op = "get_best_media"
    /\ call.media_type = "box-2D"
    /\ ~call.preferred_regions.given
    /\ Len(game_info.media) = 2
    /\ game_info.media[1].media_type = "box-2D" /\ game_info.media[1].region = "jp"
    /\ game_info.media[2].media_type = "box-2D" /\ game_info.media[2].region = "EU"
    /\ result.best = SomeMedia(game_info.media[2])

\* C9: a GameInfo produced by the mapper has no media descriptor with an
\* empty URL: items whose URL is missing or empty are left out, so a node
\* whose only media item has url "" yields no media.
C9_NoEmptyUrl ==
    (result.op = "_parse_game_data" /\ result.ret = "GameInfo") =>
        /\ \A i \in DOMAIN result.game.media : result.game.media[i].url # ""
        /\ LET jeu == call.data.response.jeu
           IN  (Has(jeu, "medias")
                /\ \A g \in DOMAIN jeu.medias :
                      Has(jeu.medias[g], "media") =>
                          \A k \in DOMAIN jeu.medias[g].media :
                              ~Has(jeu.medias[g].media[k], "url")
                              \/ jeu.medias[g].media[k].url = "")
               => result.game.media = <<>>

\* The node {"medias": [{"media": [{"type": "box-2D", "url": ""}]}]} mapped.
C9_Witness ==
    /\ result.op = "_parse_game_data"
    /\ result.ret = "GameInfo"
    /\ Has(call.data.response.jeu, "medias")
    /\ call.data.response.jeu.medias =
          << [media |-> << [type |-> "box-2D", url |-> ""] >>] >>
    /\ result.game.media = <<>>

\* C10: when download_media returns, its map has one boolean entry for each
\* distinct requested kind, true iff the record has a descriptor of the kind
\* and the download made for the kind's last occurrence succeeded; every
\* requested kind with a descriptor is attempted, whatever happened to the
\* kinds before it; no file is written for a kind without one.  Two kinds,
\* one found and downloaded, one not found: one true, one false, one file.
C10_DownloadMap ==
    (result.op = "download_media" /\ result.ret = "map") =>
        LET kinds   == call.media_types
            found(k) == \E i \in DOMAIN game_info.media :
                            game_info.media[i].media_type = k
            last(k) == Max({i \in DOMAIN kinds : kinds[i] = k})
            results == result.done.results
        IN  /\ DOMAIN results = {kinds[i] : i \in DOMAIN kinds}
            /\ \A k \in DOMAIN results :
                  /\ results[k] \in BOOLEAN
                  /\ results[k] <=> (found(k) /\ call.outcomes[last(k)] = "ok")
            /\ result.done.attempts = SelectSeq(kinds, found)
            /\ \A f \in result.done.written : found(f.kind)
            /\ files = result.done.written
            /\ (/\ Len(kinds) = 2
                /\ \E i, j \in DOMAIN kinds :
                      /\ found(kinds[i]) /\ call.outcomes[i] = "ok"
                      /\ ~found(kinds[j]))
               => (/\ Cardinality({k \in DOMAIN results : results[k]}) = 1
                   /\ Cardinality({k \in DOMAIN results : ~results[k]}) = 1
                   /\ Cardinality(result.done.written) = 1)

\* Two kinds requested, the first with no descriptor, the second found and
\* downloaded.
C10_Witness ==
    /\ result.op = "download_media"
    /\ call.media_types = <<"ss", "box-2D">>
    /\ \A i \in DOMAIN game_info.media : game_info.media[i].media_type = "box-2D"
    /\ call.outcomes = <<"none", "ok">>
    /\ result.done.results = [k \in {"ss", "box-2D"} |-> k = "box-2D"]
    /\ Cardinality(files) = 1

\* C11: every outbound HTTP call of a client operation, the media fetches of
\* download_media as well as the calls of the searches, is preceded by the
\* rate-limit step: the step has stamped the instant of the latest call, and
\* no two consecutive outbound calls are closer than request_delay.
C11_EveryCallRateLimited ==
    /\ calls # <<>> => last_request_time = calls[Len(calls)].at
    /\ \A i \in 1..(Len(calls) - 1) :
          calls[i + 1].at - calls[i].at >= request_delay

\* The text of an entry, empty when the entry has none.
Text(entry) == IF Has(entry, "text") THEN entry.text ELSE ""

\* The node the mapper was called on.
Jeu == call.data.response.jeu

Parsed == result.op = "_parse_game_data" /\ result.ret = "GameInfo"

\* The locale rule: the text of the first entry in the language, else of the
\* first entry, else the empty string.
LocaleRule(list, locale) ==
    LET hits == {i \in DOMAIN list :
                    Has(list[i], "langue") /\ list[i].langue = locale}
    IN  IF list = <<>> THEN ""
        ELSE IF hits # {} THEN Text(list[Min(hits)])
        ELSE Text(list[1])

\* C12: localized text selection returns the text of the first entry whose
\* locale is the configured one, else the text of the first entry, else the
\* empty string; [(fr, Bonjour), (en, Hello)] gives Hello for en and Bonjour
\* for de.
C12_LocalizedText ==
    (Parsed /\ Has(Jeu, "noms")) =>
        /\ result.game.name = LocaleRule(Jeu.noms, language)
        /\ Jeu.noms = <<[langue |-> "fr", text |-> "Bonjour"],
                        [langue |-> "en", text |-> "Hello"]>>
           => result.game.name = (IF language = "en" THEN "Hello" ELSE "Bonjour")

\* The list of the example under the language en: the second entry is taken.
C12_Witness ==
    /\ Parsed
    /\ Has(Jeu, "noms")
    /\ Jeu.noms = <<[langue |-> "fr", text |-> "Bonjour"],
                    [langue |-> "en", text |-> "Hello"]>>
    /\ language = "en"
    /\ result.game.name = "Hello"

\* A node that carries the five text fields.
HasTexts ==
    \A k \in {"noms", "synopsis", "editeur", "developpeur", "genres"} :
        Has(Jeu, k)

\* C13 as stated: each of name, description, publisher, developer and genre
\* is chosen by the locale rule.
C13_FiveFieldsByLocale ==
    (Parsed /\ HasTexts) =>
        /\ result.game.name = LocaleRule(Jeu.noms, language)
        /\ result.game.description = LocaleRule(Jeu.synopsis, language)
        /\ result.game.publisher = LocaleRule(Jeu.editeur, language)
        /\ result.game.developer = LocaleRule(Jeu.developpeur, language)
        /\ result.game.genre = LocaleRule(Jeu.genres, language)

\* The text of the first entry, else the empty string.
FirstRule(list) == IF list = <<>> THEN "" ELSE Text(list[1])

\* C13, amended: name and description are chosen by the locale rule;
\* publisher, developer and genre are the text of the first entry of their
\* list whatever its locale, else the empty string.
C13_LocalizedFields ==
    (Parsed /\ HasTexts) =>
        /\ result.game.name = LocaleRule(Jeu.noms, language)
        /\ result.game.description = LocaleRule(Jeu.synopsis, language)
        /\ result.game.publisher = FirstRule(Jeu.editeur)
        /\ result.game.developer = FirstRule(Jeu.developpeur)
        /\ result.game.genre = FirstRule(Jeu.genres)

\* Lists whose second entry is in the configured language: the name follows
\* the language, the publisher does not.
C13_Witness ==
    /\ Parsed
    /\ HasTexts
    /\ language = "en"
    /\ Jeu.editeur = <<[langue |-> "fr", text |-> "Bonjour"],
                       [langue |-> "en", text |-> "Hello"]>>
    /\ result.game.name = "Hello"
    /\ result.game.description = "Hello"
    /\ result.game.publisher = "Bonjour"
    /\ result.game.developer = "Bonjour"
    /\ result.game.genre = "Bonjour"

\* A search that got as far as its request and ended in a failure.
FailedRequest ==
    /\ result.op \in SearchOps
    /\ result.ret = "raise"
    /\ result.exc # "ValueError"

\* C14: a search issues at most one HTTP request per invocation; a transport
\* failure, an error response or an unparsable body ends the call with a
\* failure after exactly one request, never followed by another.
C14_NoRetry ==
    result.op \in SearchOps =>
        /\ result.http <= 1
        /\ FailedRequest => result.http = 1

\* A body that stays unparsable: the failure follows the one request made.
C14_Witness ==
    /\ FailedRequest
    /\ result.http = 1
    /\ Len(calls) = 1
    /\ calls[1].failed
    /\ result.exc = "JSONDecodeError"

\* The parameters of the request the last operation sent.
SentParams == result.op \in SearchOps /\ result.http = 1

\* C15: the parameter set of every request holds the developer id, the
\* developer secret, the software name and the output-format selector; the
\* end-user id and secret are in it iff both are configured and non-empty,
\* and never one without the other.
C15_RequestParams ==
    SentParams =>
        LET params == call.params
            both   == Truthy(config.user_id) /\ Truthy(config.user_password)
        IN  /\ {"devid", "devpassword", "softname", "output"} \subseteq DOMAIN params
            /\ params.devid = Some(config.dev_id)
            /\ params.devpassword = Some(config.dev_password)
            /\ params.softname = Some(config.software_name)
            /\ params.output = Some("json")
            /\ Has(params, "ssid") <=> both
            /\ Has(params, "sspassword") <=> both
            /\ both => /\ params.ssid = config.user_id
                       /\ params.sspassword = config.user_password

\* A request of a client configured with a user id and no password: neither
\* is sent.
C15_Witness ==
    /\ SentParams
    /\ config.user_id = Some("u")
    /\ config.user_password = None
    /\ ~Has(call.params, "ssid")
    /\ ~Has(call.params, "sspassword")
    /\ Has(call.params, "devid")

\* C16: release-date selection returns the text of the first entry, in list
\* order, whose region is 'wor' or 'us'; with no such entry the text of the
\* first entry; the empty string for the empty list.
C16_ReleaseDate ==
    (Parsed /\ Has(Jeu, "dates")) =>
        LET dates == Jeu.dates
            hits  == {i \in DOMAIN dates :
                         Has(dates[i], "region")
                         /\ dates[i].region \in {"wor", "us"}}
        IN  result.game.release_date =
                (IF dates = <<>> THEN ""
                 ELSE IF hits # {} THEN Text(dates[Min(hits)])
                 ELSE Text(dates[1]))

\* A Japanese date listed before a worldwide one: the worldwide one is taken.
C16_Witness ==
    /\ Parsed
    /\ Has(Jeu, "dates")
    /\ Jeu.dates = <<[region |-> "jp", text |-> "1989"],
                     [region |-> "wor", text |-> "1990"]>>
    /\ result.game.release_date = "1990"

UpperHex ==
    {"0", "1", "2", "3", "4", "5", "6", "7", "8", "9",
     "A", "B", "C", "D", "E", "F"}

\* A string of exactly n upper-case hexadecimal digits.
IsUpperHex(chars, n) ==
    Len(chars) = n /\ \A i \in DOMAIN chars : chars[i] \in UpperHex

Fingerprinted == result.op = "calculate_file_hashes" /\ result.ret = "tuple"

\* C17: for every readable file the fingerprint of calculate_file_hashes is
\* three strings of exactly 32, 40 and 8 upper-case hexadecimal digits; the
\* checksum is taken modulo 2^32 and zero-padded to 8 digits.  The same
\* three strings are what search_by_file sends.
C17_FingerprintFormat ==
    /\ Fingerprinted =>
          /\ IsUpperHex(result.hashes.md5, 32)
          /\ IsUpperHex(result.hashes.sha1, 40)
          /\ IsUpperHex(result.hashes.crc, 8)
          /\ call.file = "empty.nes" =>
                result.hashes.crc = <<"0", "0", "0", "0", "0", "0", "0", "0">>
    /\ (SentParams /\ result.op = "search_by_file") =>
          /\ IsUpperHex(call.params.md5.chars, 32)
          /\ IsUpperHex(call.params.sha1.chars, 40)
          /\ IsUpperHex(call.params.crc.chars, 8)

\* The file holding the byte "c": its checksum 0x06B9DF6F needs the padding
\* and its digests hold letters.
C17_Witness ==
    /\ Fingerprinted
    /\ call.file = "c.nes"
    /\ result.hashes.crc = <<"0", "6", "B", "9", "D", "F", "6", "F">>
    /\ SubSeq(result.hashes.md5, 1, 4) = <<"4", "A", "8", "A">>
    /\ SubSeq(result.hashes.sha1, 1, 4) = <<"8", "4", "A", "5">>

\* A search whose platform is supported and whose file, if any, was read.
Eligible ==
    \/ result.op = "search_by_id"
    \/ result.op = "search_by_name" /\ call.platform \in DOMAIN PLATFORMS
    \/ /\ result.op = "search_by_file"
       /\ call.platform \in DOMAIN PLATFORMS
       /\ call.file \in ReadableFiles

\* C18: the daily maximum is never enforced: however request_count compares
\* with max_requests_per_day, an eligible search issues its HTTP request,
\* and it fails with QuotaExceeded only when the reply of the service says
\* so.
C18_MaximumNotEnforced ==
    Eligible =>
        /\ result.http = 1
        /\ result.exc = "APIQuotaExceededError" =>
              /\ Has(call.reply.data, "header")
              /\ Has(call.reply.data.header, "erreur")
              /\ Contains(Lower(call.reply.data.header.erreur), "quota")

\* A request answered when two requests had already been counted against a
\* maximum of one.
C18_Witness ==
    /\ Eligible
    /\ config.max_requests_per_day = 1
    /\ request_count = 3
    /\ Len(calls) = 3
    /\ result.http = 1
    /\ result.ret = "None"

\* The items of a group, none for a group without a list.
ItemsOf(group) == IF Has(group, "media") THEN group.media ELSE <<>>

\* Every item of the node in encounter order: the groups in their order,
\* the items of each in theirs.
RECURSIVE Encountered(_)
Encountered(groups) ==
    IF groups = <<>> THEN <<>>
    ELSE Encountered(SubSeq(groups, 1, Len(groups) - 1))
         \o ItemsOf(groups[Len(groups)])

Survives(item) == Has(item, "url") /\ item.url # ""

\* C19: the media list of a parsed record is exactly the items with a
\* non-empty URL in encounter order, each once, with its own fields.
C19_MediaInOrder ==
    (Parsed /\ Has(Jeu, "medias")) =>
        LET kept == SelectSeq(Encountered(Jeu.medias), Survives)
        IN  /\ Len(result.game.media) = Len(kept)
            /\ \A i \in DOMAIN kept :
                  /\ result.game.media[i].url = kept[i].url
                  /\ result.game.media[i].media_type = kept[i].type

\* Two groups with a surviving item each and a dropped one between them.
C19_Witness ==
    /\ Parsed
    /\ Has(Jeu, "medias")
    /\ Jeu.medias =
          <<[media |-> <<[type |-> "ss", url |-> "http://b", size |-> "640"],
                         [type |-> "box-2D", url |-> ""]>>],
            [media |-> <<[type |-> "box-2D", url |-> "http://a",
                          format |-> "png", region |-> "eu"]>>]>>
    /\ result.game.media =
          <<GameMedia("ss", "http://b", "", "", "640"),
            GameMedia("box-2D", "http://a", "png", "eu", "")>>

\* The typed errors of an error response: QuotaExceeded, ServiceClosed and
\* the base error, each with its message prefix.
TypedErrors ==
    {<<"APIQuotaExceededError", "API quota exceeded: ">>,
     <<"APIClosedError", "API closed: ">>,
     <<"ScreenScraperError", "API error: ">>}

\* C20: the error header is checked before the game payload: a parsed
\* response that carries an error field and has no 'response' wrapper or no
\* game node makes the search raise the typed error with the message of the
\* header, and never return the empty NotFound result.
C20_ErrorBeforePayload ==
    (GotDocument /\ HasError(Doc) /\ LacksGame(Doc)) =>
        /\ result.ret = "raise"
        /\ <<result.exc, result.prefix>> \in TypedErrors
        /\ result.detail = Doc.header.erreur

\* A search by name answered by a quota error with no response wrapper.
C20_Witness ==
    /\ GotDocument
    /\ result.op = "search_by_name"
    /\ HasError(Doc)
    /\ ~Has(Doc, "response")
    /\ result.ret = "raise"
    /\ result.exc = "APIQuotaExceededError"

\* A search by name or by file given a name that is no key of PLATFORMS.
Rejected ==
    /\ result.op \in {"search_by_name", "search_by_file"}
    /\ call.platform \notin DOMAIN PLATFORMS

\* C21: a search rejected for an unrecognized platform leaves the client as
\* it was: last_request_time, request_count, the clock and the call log keep
\* their values, so the rejected call neither delays nor counts against
\* later calls; search_by_file checks the platform before it fingerprints,
\* so the rejection is reported for a missing file too and the file is
\* never read.  (Stated of the step of the search, not of the time a
\* caller lets pass afterwards.)
C21_RejectionLeavesNoTrace ==
    [][(Rejected' /\ ~Tick) =>
          /\ UNCHANGED <<now, request_delay, language, config,
                         last_request_time, request_count, calls, files>>
          /\ result'.exc = "ValueError"
          /\ result'.prefix = "Unsupported platform: "
          /\ ~call'.hashed]_vars

\* A rejected search by file, on a missing file, of a client whose last
\* request was made and counted a while ago.
C21_Witness ==
    /\ Rejected
    /\ result.op = "search_by_file"
    /\ call.platform = "invalid_platform"
    /\ call.file = "missing"
    /\ ~call.hashed
    /\ result.exc = "ValueError"
    /\ request_count = 1
    /\ Len(calls) = 1
    /\ last_request_time = calls[1].at
    /\ now > last_request_time

\* The step is a call that sent its request.
SentNow == Len(calls') = Len(calls) + 1

\* The body of the reply to the call of this step was parsed, as it came or
\* repaired.
ParsedNow ==
    /\ call'.reply.net = "ok"
    /\ WellFormed(call'.reply.text) \/ OnlyKnownDefect(call'.reply.text)

\* C22: request_count never decreases; it grows by exactly one in a call
\* whose body was parsed, the responses that then raise QuotaExceeded,
\* ServiceClosed or RemoteError included, and keeps its value in a call that
\* ends in a transport failure or an unparsable body, and in every other
\* step; last_request_time is set to the instant of the request by every
\* call that sends one, the failed ones too, and never goes back.
C22_CountsParsedBodies ==
    [][/\ request_count' >= request_count
       /\ last_request_time' >= last_request_time
       /\ SentNow =>
             /\ request_count' = request_count + (IF ParsedNow THEN 1 ELSE 0)
             /\ last_request_time' = calls'[Len(calls')].at
             /\ last_request_time' >= now
       /\ ~SentNow =>
             /\ request_count' = request_count
             /\ last_request_time' = last_request_time]_vars

\* A request that timed out after one that was answered by a quota error:
\* the first was counted, the second was not, and the second moved
\* last_request_time on.
C22_Witness ==
    /\ Len(calls) = 2
    /\ request_count = 1
    /\ result.op \in SearchOps
    /\ result.exc = "ScreenScraperError"
    /\ result.prefix = "Request failed: "
    /\ calls[2].failed
    /\ calls[1].failed
    /\ last_request_time = calls[2].at
    /\ calls[2].at > calls[1].at

====
